---- MODULE Spec2Model ----
(***************************************************************************)
(* A model of pytest_dependency.py: the per-scope dependency managers, the *)
(* run-time hooks that record phase reports and skip dependents, and the   *)
(* collection-time pass that rewrites and filters the collected items.     *)
(*                                                                         *)
(* A Python str is a sequence of tokens; "::" is the token SEP.  A Python  *)
(* dict is a sequence of <<key, value>> pairs in insertion order.          *)
(***************************************************************************)
EXTENDS Integers, Sequences, FiniteSets, TLC

VARIABLES
    automark,           \* module global _automark
    ignore_unknown,     \* module global _ignore_unknown
    dependencyManager,  \* node -> the attribute node.dependencyManager, or None
    cur,                \* the item the host is running (index in TestItems), 0 when idle
    stage,              \* where the host is in the run of cur
    signal,             \* what the last hook or test-body call raised
    request,            \* the arguments of the depends() call of the running body
    runs,               \* number of test runs the host has started
    status,             \* a stand-alone DependencyItemStatus
    calls,              \* the reports given to status.addResult, oldest first
    manager,            \* a stand-alone DependencyManager, or None
    given,              \* the arguments of the addResult calls on manager, oldest first
    raised,             \* what the last call on manager raised
    defs,               \* the test functions of the collected module
    deselect,           \* the function the command line left out (0: none)
    collected,          \* every item the collectors generated, in order
    FirstPassCollect,   \* module global: function name -> its generated items
    items,              \* the item list the host hands to the hooks
    kwargs,             \* marker object -> its kwargs
    seen,               \* dfs: item name -> resolved dependency names
    new_items,          \* dfs: the items kept
    stack,              \* the calls of dfs in progress, innermost last
    idx,                \* place of the loop "for item in items"
    pc                  \* where the collection is

vars == <<automark, ignore_unknown, dependencyManager, cur, stage, signal, request, runs,
          status, calls, manager, given, raised, defs, deselect, collected, FirstPassCollect, items, kwargs,
          seen, new_items, stack, idx, pc>>

runVars == <<automark, ignore_unknown, dependencyManager, cur, stage, signal, request,
             runs>>
statusVars == <<status, calls, manager, given, raised>>
staticVars == <<defs, deselect, collected, FirstPassCollect, items, kwargs, seen,
                new_items, stack, idx, pc>>

-----------------------------------------------------------------------------
(* Bounds *)

MaxRuns == 2        \* test runs the host starts (reruns included)
MaxOther == 2       \* length of the list given to depends()
MaxCalls == 4       \* addResult calls on the stand-alone status
MaxAdds == 2        \* addResult calls on the stand-alone manager
MaxDeps == 2        \* names in the depends list of a collected test's marker
RecursionLimit == 6 \* depth of dfs calls at which Python raises RecursionError

-----------------------------------------------------------------------------
(* Python values *)

None == "None"
SEP == "::"

Phases == <<"setup", "call", "teardown">>
Outcomes == {"passed", "failed", "skipped"}

Range(s) == {s[i] : i \in DOMAIN s}

\* the lists of at most n different elements of S
ListsUpTo(S, n) ==
    {l \in UNION {[1..k -> S] : k \in 0..n} :
        \A i, j \in DOMAIN l : i # j => l[i] # l[j]}

\* sub occurs in s as a contiguous run of tokens
Contains(s, sub) ==
    \E i \in 0..(Len(s) - Len(sub)) : SubSeq(s, i + 1, i + Len(sub)) = sub

\* str.replace(old, new): left to right, matches do not overlap
RECURSIVE replace(_, _, _)
replace(s, old, new) ==
    IF Len(s) < Len(old) THEN s
    ELSE IF SubSeq(s, 1, Len(old)) = old
         THEN new \o replace(SubSeq(s, Len(old) + 1, Len(s)), old, new)
         ELSE <<Head(s)>> \o replace(Tail(s), old, new)

\* position of the first token sep in s, 0 when there is none
RECURSIVE find(_, _, _)
find(s, sep, from) ==
    IF from > Len(s) THEN 0
    ELSE IF s[from] = sep THEN from ELSE find(s, sep, from + 1)

\* str.split(sep, maxsplit): the list of parts
RECURSIVE split(_, _, _)
split(s, sep, maxsplit) ==
    LET at == find(s, sep, 1) IN
    IF maxsplit = 0 \/ at = 0 THEN <<s>>
    ELSE <<SubSeq(s, 1, at - 1)>>
         \o split(SubSeq(s, at + 1, Len(s)), sep, maxsplit - 1)

\* dict: keys in insertion order, d[k] = v, k in d, d[k]
dictKeys(d) == [i \in DOMAIN d |-> d[i][1]]
dictValues(d) == [i \in DOMAIN d |-> d[i][2]]
dictHas(d, k) == \E i \in DOMAIN d : d[i][1] = k
dictGet(d, k) == d[CHOOSE i \in DOMAIN d : d[i][1] = k][2]
dictSet(d, k, v) ==
    IF dictHas(d, k)
    THEN [i \in DOMAIN d |-> IF d[i][1] = k THEN <<k, v>> ELSE d[i]]
    ELSE Append(d, <<k, v>>)

-----------------------------------------------------------------------------
(* DependencyItemStatus *)

\* __init__: { w: None for w in Phases }
DependencyItemStatus == [i \in DOMAIN Phases |-> <<Phases[i], None>>]

\* a mutant: the first outcome recorded for a phase is kept
Status_addResult_keepFirst(st, rep) ==
    IF dictHas(st, rep.when) /\ dictGet(st, rep.when) # None THEN st
    ELSE dictSet(st, rep.when, rep.outcome)

\* self.results[rep.when] = rep.outcome
Status_addResult(st, rep) == dictSet(st, rep.when, rep.outcome)

\* a mutant: teardown is not looked at
isSuccess_noTeardown(st) ==
    SubSeq(dictValues(st), 1, 2) = <<"passed", "passed">>

\* list(self.results.values()) == ['passed', 'passed', 'passed']
isSuccess(st) == dictValues(st) = <<"passed", "passed", "passed">>

Report(when, outcome) == [when |-> when, outcome |-> outcome]

-----------------------------------------------------------------------------
(* The collected tests of the run-time model.  calls_depends: the test body *)
(* calls depends(request, other, scope).  own: the outcomes the test's own  *)
(* fixtures and body can give each phase when the plugin raises nothing.    *)

Some(v) == <<v>>
Nothing == <<>>

\* d.get(k): Some(value), or Nothing for Python's None
dictGetOpt(d, k) == IF dictHas(d, k) THEN Some(dictGet(d, k)) ELSE Nothing

\* the truth value of an optional str
truthy(opt) == opt # Nothing /\ opt[1] # <<>>

\* the classes of ScopeCls, in the order the dict is written
ScopeCls == <<"session", "package", "module", "class">>

Parents(package, module, class) ==
    [session |-> "session", package |-> package, module |-> module, class |-> class]

Marker(kw) == [present |-> TRUE, kwargs |-> kw]
NoMarker == [present |-> FALSE, kwargs |-> <<>>]

TestItems == <<
    [name |-> <<"test_a">>,
     nodeid |-> <<"mod.py", SEP, "test_a">>,
     parents |-> Parents(None, "mod.py", None),
     marker |-> Marker(<<>>),
     calls_depends |-> TRUE,
     own |-> [setup |-> {"passed", "failed"}, call |-> {"passed", "failed"},
              teardown |-> {"passed", "failed"}]],
    [name |-> <<"test_b">>,
     nodeid |-> <<"mod.py", SEP, "test_b">>,
     parents |-> Parents(None, "mod.py", None),
     marker |-> Marker(<< <<"depends", << <<"test_a">> >> >> >>),
     calls_depends |-> FALSE,
     own |-> [setup |-> {"passed"}, call |-> {"passed", "failed"},
              teardown |-> {"passed"}]],
    [name |-> <<"test_c">>,
     nodeid |-> <<"mod.py", SEP, "test_c">>,
     parents |-> Parents(None, "mod.py", None),
     marker |-> Marker(<< <<"name", <<"c">> >>,
                          <<"depends", << <<"test_b">> >> >>,
                          <<"scope", "module">> >>),
     calls_depends |-> FALSE,
     own |-> [setup |-> {"passed"}, call |-> {"passed"},
              teardown |-> {"passed"}]],
    [name |-> <<"test_a">>,
     nodeid |-> <<"pkg/m2.py", SEP, "C", SEP, "()", SEP, "test_a">>,
     parents |-> Parents("pkg", "pkg/m2.py", "pkg/m2.py::C"),
     marker |-> Marker(<<>>),
     calls_depends |-> TRUE,
     own |-> [setup |-> {"passed"}, call |-> {"passed", "failed"},
              teardown |-> {"passed"}]],
    [name |-> <<"test_d">>,
     nodeid |-> <<"mod.py", SEP, "test_d">>,
     parents |-> Parents(None, "mod.py", None),
     marker |-> Marker(<< <<"depends", << <<"test_a">> >> >>,
                          <<"scope", "class">> >>),
     calls_depends |-> FALSE,
     own |-> [setup |-> {"passed"}, call |-> {"passed"},
              teardown |-> {"passed"}]],
    [name |-> <<"test_u">>,
     nodeid |-> <<"pkg/m2.py", SEP, "test_u">>,
     parents |-> Parents("pkg", "pkg/m2.py", None),
     marker |-> NoMarker,
     calls_depends |-> FALSE,
     own |-> [setup |-> {"passed"}, call |-> {"passed", "failed"},
              teardown |-> {"passed"}]]
>>

ItemIds == DOMAIN TestItems

\* the container nodes of the collection tree
Nodes == UNION {{TestItems[i].parents[s] : s \in Range(ScopeCls)} : i \in ItemIds}
             \ {None}

\* names a test body may hand to depends()
DepNames == {<<"test_a">>, <<"test_b">>, <<"C", SEP, "test_a">>}

\* the lists a test body may hand to depends()
OtherLists == ListsUpTo(DepNames, MaxOther)

\* scope keywords a caller may write
ScopeWords == Range(ScopeCls) \cup {"function"}

-----------------------------------------------------------------------------
(* What a call raises *)

NoSignal == [kind |-> "none", exc |-> "", msg |-> <<>>]
Raise(exc) == [kind |-> "error", exc |-> exc, msg |-> <<>>]
\* pytest.skip(msg)
Skip(msg) == [kind |-> "skip", exc |-> "Skipped", msg |-> msg]

-----------------------------------------------------------------------------
(* DependencyManager *)

\* __init__(scope)
DependencyManager(scope) == [scope |-> scope, results |-> <<>>]

\* a mutant: a fresh manager on every lookup
getManager_fresh(dm, item, scope) ==
    IF scope \notin Range(ScopeCls)
    THEN [sig |-> Raise("KeyError"), ret |-> None, dm |-> dm]
    ELSE LET node == item.parents[scope] IN
         IF node = None
         THEN [sig |-> NoSignal, ret |-> None, dm |-> dm]
         ELSE [sig |-> NoSignal, ret |-> node,
               dm |-> [dm EXCEPT ![node] = Some(DependencyManager(scope))]]

\* getManager(item, scope): the node holding the manager (None when there is no
\* such ancestor) and the attributes after the call
getManager(dm, item, scope) ==
    IF scope \notin Range(ScopeCls)
    THEN [sig |-> Raise("KeyError"), ret |-> None, dm |-> dm]
    ELSE LET node == item.parents[scope] IN
         IF node = None
         THEN [sig |-> NoSignal, ret |-> None, dm |-> dm]
         ELSE IF dm[node] = Nothing
              THEN [sig |-> NoSignal, ret |-> node,
                    dm |-> [dm EXCEPT ![node] = Some(DependencyManager(scope))]]
              ELSE [sig |-> NoSignal, ret |-> node, dm |-> dm]

\* a mutant: the module scope strips the class name too
canonicalName_moduleAsClass(scope, item) ==
    LET nodeid == replace(item.nodeid, <<SEP, "()", SEP>>, <<SEP>>) IN
    IF scope = "session" \/ scope = "package" THEN Some(nodeid)
    ELSE IF scope = "module" \/ scope = "class"
         THEN LET parts == split(nodeid, SEP, 2) IN Some(parts[Len(parts)])
    ELSE Nothing

\* the name addResult derives when none is given: Some(name), or Nothing when
\* the derivation raises
canonicalName(scope, item) ==
    LET nodeid == replace(item.nodeid, <<SEP, "()", SEP>>, <<SEP>>) IN
    IF scope = "session" \/ scope = "package" THEN Some(nodeid)
    ELSE IF scope = "module"
         THEN LET parts == split(nodeid, SEP, 1) IN
              IF Len(parts) >= 2 THEN Some(parts[2]) ELSE Nothing
    ELSE IF scope = "class"
         THEN LET parts == split(nodeid, SEP, 2) IN
              IF Len(parts) >= 3 THEN Some(parts[3]) ELSE Nothing
    ELSE Nothing

\* addResult(item, name, rep)
Manager_addResult(mgr, item, name, rep) ==
    LET derived == IF truthy(name) THEN name ELSE canonicalName(mgr.scope, item) IN
    IF derived = Nothing
    THEN [sig |-> Raise(IF mgr.scope \in Range(ScopeCls)
                        THEN "IndexError" ELSE "RuntimeError"),
          mgr |-> mgr]
    ELSE LET old == IF dictHas(mgr.results, derived[1])
                    THEN dictGet(mgr.results, derived[1])
                    ELSE DependencyItemStatus
         IN [sig |-> NoSignal,
             mgr |-> [mgr EXCEPT !.results =
                         dictSet(mgr.results, derived[1], Status_addResult(old, rep))]]

\* "%s depends on %s" % (item.name, i)
skipMessage(item, i) == item.name \o <<" depends on ">> \o i

\* a mutant: an unknown name is always passed over
RECURSIVE checkDepend_alwaysIgnore(_, _, _)
checkDepend_alwaysIgnore(mgr, depends, item) ==
    IF depends = <<>> THEN NoSignal
    ELSE LET i == Head(depends) IN
         IF dictHas(mgr.results, i)
         THEN IF isSuccess(dictGet(mgr.results, i))
              THEN checkDepend_alwaysIgnore(mgr, Tail(depends), item)
              ELSE Skip(skipMessage(item, i))
         ELSE checkDepend_alwaysIgnore(mgr, Tail(depends), item)

\* a mutant: a failed dependency is reported only after the whole list was read,
\* so the last unmet name is the one named
RECURSIVE checkDepend_lastUnmet(_, _, _)
checkDepend_lastUnmet(mgr, depends, item) ==
    IF depends = <<>> THEN NoSignal
    ELSE LET i == Head(depends)
             rest == checkDepend_lastUnmet(mgr, Tail(depends), item)
         IN IF rest.kind = "skip" THEN rest
            ELSE IF dictHas(mgr.results, i)
                 THEN IF isSuccess(dictGet(mgr.results, i))
                      THEN NoSignal ELSE Skip(skipMessage(item, i))
                 ELSE IF ignore_unknown THEN NoSignal
                      ELSE Skip(skipMessage(item, i))

\* checkDepend(depends, item): the skip it raises, if any
RECURSIVE checkDepend(_, _, _)
checkDepend(mgr, depends, item) ==
    IF depends = <<>> THEN NoSignal
    ELSE LET i == Head(depends) IN
         IF dictHas(mgr.results, i)
         THEN IF isSuccess(dictGet(mgr.results, i))
              THEN checkDepend(mgr, Tail(depends), item)
              ELSE Skip(skipMessage(item, i))
         ELSE IF ignore_unknown
              THEN checkDepend(mgr, Tail(depends), item)
              ELSE Skip(skipMessage(item, i))

-----------------------------------------------------------------------------
(* The hooks and the run-time call *)

\* a mutant: the report goes to the session manager only
makereport_loop_sessionOnly(dm, item, name, rep, k) ==
    LET g == getManager(dm, item, "session")
        a == Manager_addResult(g.dm[g.ret][1], item, name, rep) IN
    IF a.sig # NoSignal THEN [sig |-> a.sig, dm |-> g.dm]
    ELSE [sig |-> NoSignal, dm |-> [g.dm EXCEPT ![g.ret] = Some(a.mgr)]]

\* the loop of pytest_runtest_makereport over the scopes, from the k-th on
RECURSIVE makereport_loop(_, _, _, _, _)
makereport_loop(dm, item, name, rep, k) ==
    IF k > Len(ScopeCls) THEN [sig |-> NoSignal, dm |-> dm]
    ELSE LET g == getManager(dm, item, ScopeCls[k]) IN
         IF g.sig # NoSignal THEN [sig |-> g.sig, dm |-> g.dm]
         ELSE IF g.ret = None THEN makereport_loop(g.dm, item, name, rep, k + 1)
         ELSE LET a == Manager_addResult(g.dm[g.ret][1], item, name, rep) IN
              IF a.sig # NoSignal THEN [sig |-> a.sig, dm |-> g.dm]
              ELSE makereport_loop([g.dm EXCEPT ![g.ret] = Some(a.mgr)],
                                   item, name, rep, k + 1)

\* a mutant: a skipped phase is not recorded
makereport_unlessSkipped(dm, item, rep) ==
    IF rep.outcome # "skipped" /\ (item.marker.present \/ automark)
    THEN LET name == IF item.marker.present
                     THEN dictGetOpt(item.marker.kwargs, "name") ELSE Nothing
         IN makereport_loop(dm, item, name, rep, 1)
    ELSE [sig |-> NoSignal, dm |-> dm]

\* a mutant: the outcome is stored whether or not the item is marked
makereport_always(dm, item, rep) ==
    LET name == IF item.marker.present
                THEN dictGetOpt(item.marker.kwargs, "name") ELSE Nothing
    IN makereport_loop(dm, item, name, rep, 1)

\* the body of pytest_runtest_makereport after the yield
makereport(dm, item, rep) ==
    IF item.marker.present \/ automark
    THEN LET name == IF item.marker.present
                     THEN dictGetOpt(item.marker.kwargs, "name") ELSE Nothing
         IN makereport_loop(dm, item, name, rep, 1)
    ELSE [sig |-> NoSignal, dm |-> dm]

\* manager.checkDepend(names, item) on what getManager returned
checkOn(g, names, item) ==
    IF g.sig # NoSignal THEN [sig |-> g.sig, dm |-> g.dm]
    ELSE IF g.ret = None
         THEN [sig |-> Raise("AttributeError"), dm |-> g.dm]
         ELSE [sig |-> checkDepend(g.dm[g.ret][1], names, item), dm |-> g.dm]

\* a mutant: the scope argument is not used, the module manager is asked
depends_moduleOnly(dm, item, other, scope) ==
    checkOn(getManager(dm, item, "module"), other, item)

\* the body of depends(request, other, scope), item = request.node
depends(dm, item, other, scope) == checkOn(getManager(dm, item, scope), other, item)

\* the body of pytest_runtest_setup(item)
runtest_setup(dm, item) ==
    IF item.marker.present
    THEN LET deps == dictGetOpt(item.marker.kwargs, "depends") IN
         IF deps # Nothing /\ deps[1] # <<>>
         THEN LET scope == IF dictHas(item.marker.kwargs, "scope")
                           THEN dictGet(item.marker.kwargs, "scope") ELSE "module"
              IN checkOn(getManager(dm, item, scope), deps[1], item)
         ELSE [sig |-> NoSignal, dm |-> dm]
    ELSE [sig |-> NoSignal, dm |-> dm]

-----------------------------------------------------------------------------
(* The run: the host configures the plugin, then runs one test at a time,    *)
(* setup, call and teardown, and reports each phase.                         *)

InitRun ==
    /\ automark = FALSE
    /\ ignore_unknown = FALSE
    /\ dependencyManager = [n \in Nodes |-> Nothing]
    /\ cur = 0
    /\ stage = "start"
    /\ signal = NoSignal
    /\ request = Nothing
    /\ runs = 0

InitStatus ==
    /\ status = DependencyItemStatus
    /\ calls = <<>>
    /\ manager = Nothing
    /\ given = <<>>
    /\ raised = NoSignal

\* no test function collected yet
InitNoCollection ==
    /\ defs = <<>>
    /\ deselect = 0
    /\ collected = <<>>
    /\ FirstPassCollect = <<>>
    /\ items = <<>>
    /\ kwargs = <<>>
    /\ seen = <<>>
    /\ new_items = <<>>
    /\ stack = <<>>
    /\ idx = 0
    /\ pc = "collect"

Init == InitRun /\ InitStatus /\ InitNoCollection

\* pytest_configure(config)
pytest_configure ==
    /\ stage = "start"
    /\ \E ini \in BOOLEAN, opt \in BOOLEAN :
          /\ automark' = ini
          /\ ignore_unknown' = opt
    /\ stage' = "idle"
    /\ UNCHANGED <<dependencyManager, cur, signal, request, runs, statusVars, staticVars>>

\* the host starts a test: pytest_runtest_setup(item)
pytest_runtest_setup ==
    /\ stage = "idle"
    /\ runs < MaxRuns
    /\ \E i \in ItemIds :
          LET r == runtest_setup(dependencyManager, TestItems[i]) IN
          /\ cur' = i
          /\ signal' = r.sig
          /\ dependencyManager' = r.dm
    /\ stage' = "setup"
    /\ runs' = runs + 1
    /\ UNCHANGED <<automark, ignore_unknown, request, statusVars, staticVars>>

\* the outcomes the host may report for a phase in which the plugin raised sig:
\* a skip makes the phase "skipped", an exception makes it "failed"; otherwise
\* the test's own fixtures and body decide
PhaseOutcomes(item, when, sig) ==
    IF sig.kind = "skip" THEN {"skipped"}
    ELSE IF sig.kind = "error" THEN {"failed"}
    ELSE item.own[when]

\* the test body calls depends(request, other, scope)
depends_call ==
    /\ stage = "call"
    /\ request = Nothing
    /\ TestItems[cur].calls_depends
    /\ \E other \in OtherLists, scope \in ScopeWords :
          LET r == depends(dependencyManager, TestItems[cur], other, scope) IN
          /\ signal' = r.sig
          /\ dependencyManager' = r.dm
          /\ request' = Some([other |-> other, scope |-> scope])
    /\ UNCHANGED <<automark, ignore_unknown, cur, stage, runs, statusVars, staticVars>>

\* the host reports a phase: pytest_runtest_makereport(item, call)
pytest_runtest_makereport ==
    /\ stage \in Range(Phases)
    /\ \E outcome \in PhaseOutcomes(TestItems[cur], stage, signal) :
          LET r == makereport(dependencyManager, TestItems[cur], Report(stage, outcome)) IN
          /\ dependencyManager' = r.dm
          /\ stage' = IF stage = "setup"
                      THEN (IF outcome = "passed" THEN "call" ELSE "teardown")
                      ELSE IF stage = "call" THEN "teardown" ELSE "idle"
          /\ signal' = r.sig
    /\ cur' = IF stage = "teardown" THEN 0 ELSE cur
    /\ request' = Nothing
    /\ UNCHANGED <<automark, ignore_unknown, runs, statusVars, staticVars>>

Next ==
    \/ pytest_configure
    \/ pytest_runtest_setup
    \/ depends_call
    \/ pytest_runtest_makereport

Spec == Init /\ [][Next]_vars

-----------------------------------------------------------------------------
(* A DependencyItemStatus on its own, given any reports *)

\* status.addResult(rep)
addResult ==
    /\ Len(calls) < MaxCalls
    /\ \E when \in Range(Phases), outcome \in Outcomes :
          /\ status' = Status_addResult(status, Report(when, outcome))
          /\ calls' = Append(calls, Report(when, outcome))
    /\ UNCHANGED <<manager, given, raised, runVars, staticVars>>

NextStatus == addResult

SpecStatus == Init /\ [][NextStatus]_vars

-----------------------------------------------------------------------------
(* A DependencyManager on its own, constructed with any scope word and given *)
(* the reports of marked items as pytest_runtest_makereport passes them.     *)

\* DependencyManager(scope)
Manager_new ==
    /\ manager = Nothing
    /\ \E scope \in ScopeWords : manager' = Some(DependencyManager(scope))
    /\ raised' = NoSignal
    /\ UNCHANGED <<status, calls, given, runVars, staticVars>>

\* manager.addResult(item, name, rep), name = marker.kwargs.get('name')
Manager_addResult_call ==
    /\ manager # Nothing
    /\ Len(given) < MaxAdds
    /\ \E i \in ItemIds, when \in Range(Phases), outcome \in Outcomes :
          /\ TestItems[i].marker.present
          /\ LET name == dictGetOpt(TestItems[i].marker.kwargs, "name")
                 r == Manager_addResult(manager[1], TestItems[i], name,
                                        Report(when, outcome)) IN
             /\ manager' = Some(r.mgr)
             /\ raised' = r.sig
             /\ given' = Append(given, [item |-> i, name |-> name,
                                        rep |-> Report(when, outcome)])
    /\ UNCHANGED <<status, calls, runVars, staticVars>>

NextManager ==
    \/ Manager_new
    \/ Manager_addResult_call

SpecManager == Init /\ [][NextManager]_vars

-----------------------------------------------------------------------------
(* The collected test functions of the collection-time model.  A definition  *)
(* is a test function of the collected module: its name, the ids of its      *)
(* parametrization in collection order (none: not parametrized), and whether *)
(* it carries a dependency marker.  The items generated from one function    *)
(* share the marker object of the function.                                  *)

foo == <<"foo">>
bar == <<"bar">>
baz == <<"baz">>

\* the names a marker of each function may list in depends
RawNames(name) ==
    IF name = foo THEN {bar, baz, <<"nope">>}
    ELSE IF name = bar THEN {foo, <<"foo", "[1]">>, baz, <<"nope">>}
    ELSE {baz, <<"nope">>}

\* marker.kwargs: the collect flag (absent counts as false) and depends
Kwargs(collect, deps) == [collect |-> collect, depends |-> deps]

SubsetsUpTo(S, n) == {d \in SUBSET S : Cardinality(d) <= n}

\* no marker, or one marker: collect-flagged with up to MaxDeps names, or not
\* flagged with at most one name
Marks(name) ==
    {<<>>}
    \cup {<<Kwargs(TRUE, d)>> : d \in SubsetsUpTo(RawNames(name), MaxDeps)}
    \cup {<<Kwargs(FALSE, d)>> : d \in SubsetsUpTo(RawNames(name), 1)}

Def(name, params, marks) == [name |-> name, params |-> params, marks |-> marks]

\* foo has two variants, collected in either order; bar has one or two; baz is
\* not parametrized
Suites ==
    {<<Def(foo, fp, fm), Def(bar, bp, bm), Def(baz, <<>>, zm)>> :
        fp \in {<<"[1]", "[2]">>, <<"[2]", "[1]">>},
        bp \in {<<"[1]">>, <<"[1]", "[2]">>},
        fm \in Marks(foo), bm \in Marks(bar), zm \in Marks(baz)}

\* the functions the command line may leave out: none, or baz
Deselectable == {0, 3}

\* the marker objects: one per marked function, named by the function's place
Mids == 1..3

\* collector._genfunctions(name, obj): one item per parametrization id, or one
\* item named as the function
genfunctions(d, def) ==
    LET markers == IF def.marks = <<>> THEN <<>> ELSE <<d>> IN
    IF def.params = <<>>
    THEN <<[name |-> def.name, originalname |-> def.name, markers |-> markers]>>
    ELSE [k \in DOMAIN def.params |->
            [name |-> def.name \o <<def.params[k]>>, originalname |-> def.name,
             markers |-> markers]]

-----------------------------------------------------------------------------
(* pytest_collection_modifyitems *)

\* the orders in which a set may be iterated
Orders(S) ==
    {o \in [1..Cardinality(S) -> S] : \A i, j \in DOMAIN o : i # j => o[i] # o[j]}

\* item.name[len(item.originalname):] when the name is longer, else ""
postfixOf(item) ==
    IF Len(item.name) > Len(item.originalname)
    THEN SubSeq(item.name, Len(item.originalname) + 1, Len(item.name))
    ELSE <<>>

\* the first fun of funs whose name is dependency or dependency + postfix:
\* its place in funs, 0 when there is none
RECURSIVE firstMatch(_, _, _, _, _)
firstMatch(all, funs, dependency, postfix, k) ==
    IF k > Len(funs) THEN 0
    ELSE IF all[funs[k]].name \in {dependency, dependency \o postfix} THEN k
    ELSE firstMatch(all, funs, dependency, postfix, k + 1)

\* a mutant: the first collected variant is taken, whatever its name
resolve_firstVariant(all, fpc, dependency, postfix) ==
    IF ~dictHas(fpc, dependency) THEN [new_dependency |-> dependency, fun |-> 0]
    ELSE LET funs == dictGet(fpc, dependency) IN
         IF funs = <<>> THEN [new_dependency |-> dependency, fun |-> 0]
         ELSE [new_dependency |->
                  IF all[funs[1]].name # dependency THEN dependency \o postfix
                  ELSE dependency,
               fun |-> funs[1]]

\* lines 239-249 for one dependency: the name added to new_dependencies and
\* the item appended to dfs_funs (0: none)
resolve(all, fpc, dependency, postfix) ==
    IF ~dictHas(fpc, dependency) THEN [new_dependency |-> dependency, fun |-> 0]
    ELSE LET funs == dictGet(fpc, dependency)
             k == firstMatch(all, funs, dependency, postfix, 1) IN
         IF k = 0 THEN [new_dependency |-> dependency, fun |-> 0]
         ELSE [new_dependency |->
                  IF all[funs[k]].name # dependency THEN dependency \o postfix
                  ELSE dependency,
               fun |-> funs[k]]

\* the loop over dependencies in the order given: dfs_funs and new_dependencies
RECURSIVE resolveAll(_, _, _, _, _)
resolveAll(all, fpc, order, postfix, k) ==
    IF k > Len(order) THEN [dfs_funs |-> <<>>, new_dependencies |-> {}]
    ELSE LET r == resolve(all, fpc, order[k], postfix)
             rest == resolveAll(all, fpc, order, postfix, k + 1) IN
         [dfs_funs |-> (IF r.fun = 0 THEN <<>> ELSE <<r.fun>>) \o rest.dfs_funs,
          new_dependencies |-> {r.new_dependency} \cup rest.new_dependencies]

\* a mutant: resolution counts as complete when some dependency was found
isComplete_any(dfs_funs, new_dependencies) ==
    Len(dfs_funs) > 0 \/ new_dependencies = {}

\* len(dfs_funs) == len(new_dependencies)
isComplete(dfs_funs, new_dependencies) ==
    Len(dfs_funs) = Cardinality(new_dependencies)

\* a mutant: the names the dependency resolved to are dropped
update_nothing(new_dependencies, returned) == new_dependencies

\* new_dependencies.update(dfs(fun, do_collect=True))
update(new_dependencies, returned) == new_dependencies \cup returned

\* a mutant: the kept item is put at the head of the list
keep_front(l, item) == <<item>> \o l

\* new_items.append(item)
keep(l, item) == Append(l, item)

\* the locals of a call of dfs
Frame(item, do_collect, postfix) ==
    [item |-> item, do_collect |-> do_collect, postfix |-> postfix,
     do_append |-> TRUE, new_dependencies |-> {}, dependencies |-> {},
     mk |-> 1, dfs_funs |-> <<>>, fi |-> 1, at |-> "markers"]

-----------------------------------------------------------------------------
(* The collection: the host collects the functions of the module one by one, *)
(* then calls pytest_collection_modifyitems, which runs dfs on every item.   *)

InitStatic ==
    /\ InitRun /\ InitStatus
    /\ defs \in Suites
    /\ deselect \in Deselectable
    /\ collected = <<>>
    /\ FirstPassCollect = <<>>
    /\ items = <<>>
    /\ kwargs = [d \in Mids |-> IF defs[d].marks = <<>> THEN Kwargs(FALSE, {})
                                ELSE defs[d].marks[1]]
    /\ seen = <<>>
    /\ new_items = <<>>
    /\ stack = <<>>
    /\ idx = 0
    /\ pc = "collect"

top == stack[Len(stack)]
setTop(f) == [stack EXCEPT ![Len(stack)] = f]

\* pytest_pycollect_makeitem(collector, name, obj) for the next function; the
\* host adds the items to its list unless the command line left them out
pytest_pycollect_makeitem ==
    /\ pc = "collect"
    /\ Len(FirstPassCollect) < Len(defs)
    /\ LET d == Len(FirstPassCollect) + 1
           retval == genfunctions(d, defs[d])
           ids == [k \in DOMAIN retval |-> Len(collected) + k] IN
       /\ collected' = collected \o retval
       /\ FirstPassCollect' = dictSet(FirstPassCollect, defs[d].name, ids)
       /\ items' = IF d = deselect THEN items ELSE items \o ids
    /\ UNCHANGED <<defs, deselect, kwargs, seen, new_items, stack, idx, pc,
                   runVars, statusVars>>

\* pytest_collection_modifyitems(config, items): lines 220-221
modifyitems_begin ==
    /\ pc = "collect"
    /\ Len(FirstPassCollect) = Len(defs)
    /\ seen' = <<>>
    /\ new_items' = <<>>
    /\ idx' = 1
    /\ pc' = "loop"
    /\ UNCHANGED <<defs, deselect, collected, FirstPassCollect, items, kwargs, stack,
                   runVars, statusVars>>

\* lines 283-284: dfs(item) for the next item of the list
loop_call ==
    /\ pc = "loop"
    /\ stack = <<>>
    /\ idx <= Len(items)
    /\ LET item == collected[items[idx]] IN
       stack' = IF item.name \in DOMAIN seen THEN stack
                ELSE <<Frame(items[idx], FALSE, postfixOf(item))>>
    /\ idx' = idx + 1
    /\ UNCHANGED <<defs, deselect, collected, FirstPassCollect, items, kwargs, seen,
                   new_items, pc, runVars, statusVars>>

\* lines 233-249, 262, 271, 274-276: the next marker of the item
dfs_marker ==
    /\ pc = "loop"
    /\ stack # <<>>
    /\ top.at = "markers"
    /\ top.mk <= Len(collected[top.item].markers)
    /\ LET mid == collected[top.item].markers[top.mk] IN
       IF top.do_collect \/ kwargs[mid].collect
       THEN \E order \in Orders(kwargs[mid].depends) :
               LET r == resolveAll(collected, FirstPassCollect, order, top.postfix, 1)
                   f == [top EXCEPT !.dependencies = kwargs[mid].depends,
                                    !.dfs_funs = r.dfs_funs,
                                    !.new_dependencies = r.new_dependencies] IN
               IF isComplete(r.dfs_funs, r.new_dependencies)
               THEN /\ stack' = setTop([f EXCEPT !.fi = 1, !.at = "funs"])
                    /\ kwargs' = kwargs
               ELSE /\ stack' = setTop([f EXCEPT !.do_append = FALSE, !.mk = top.mk + 1])
                    /\ kwargs' = [kwargs EXCEPT ![mid].depends = r.new_dependencies]
       ELSE /\ stack' = setTop([top EXCEPT !.mk = top.mk + 1])
            /\ kwargs' = kwargs
    /\ UNCHANGED <<defs, deselect, collected, FirstPassCollect, items, seen, new_items,
                   idx, pc, runVars, statusVars>>

\* lines 272-273 and 224-225: dfs(fun, do_collect=True) for the next fun
dfs_recurse ==
    /\ pc = "loop"
    /\ stack # <<>>
    /\ top.at = "funs"
    /\ top.fi <= Len(top.dfs_funs)
    /\ LET fun == top.dfs_funs[top.fi]
           item == collected[fun] IN
       IF item.name \in DOMAIN seen
       THEN /\ stack' = setTop([top EXCEPT
                           !.new_dependencies =
                               update(top.new_dependencies, seen[item.name]),
                           !.fi = top.fi + 1])
            /\ pc' = pc
       ELSE IF Len(stack) >= RecursionLimit
       THEN /\ stack' = <<>>
            /\ pc' = "RecursionError"
       ELSE /\ stack' = Append(stack, Frame(fun, TRUE, postfixOf(item)))
            /\ pc' = pc
    /\ UNCHANGED <<defs, deselect, collected, FirstPassCollect, items, kwargs, seen,
                   new_items, idx, runVars, statusVars>>

\* line 276 after the loop over dfs_funs
dfs_writeback ==
    /\ pc = "loop"
    /\ stack # <<>>
    /\ top.at = "funs"
    /\ top.fi > Len(top.dfs_funs)
    /\ kwargs' = [kwargs EXCEPT ![collected[top.item].markers[top.mk]].depends =
                                    top.new_dependencies]
    /\ stack' = setTop([top EXCEPT !.mk = top.mk + 1, !.at = "markers"])
    /\ UNCHANGED <<defs, deselect, collected, FirstPassCollect, items, seen, new_items,
                   idx, pc, runVars, statusVars>>

\* lines 278-281, and line 273 in the caller
dfs_return ==
    /\ pc = "loop"
    /\ stack # <<>>
    /\ top.at = "markers"
    /\ top.mk > Len(collected[top.item].markers)
    /\ new_items' = IF top.do_append THEN keep(new_items, top.item) ELSE new_items
    /\ seen' = (collected[top.item].name :> top.new_dependencies) @@ seen
    /\ stack' = IF Len(stack) = 1 THEN <<>>
                ELSE LET caller == stack[Len(stack) - 1] IN
                     Append(SubSeq(stack, 1, Len(stack) - 2),
                            [caller EXCEPT
                               !.new_dependencies =
                                   update(caller.new_dependencies, top.new_dependencies),
                               !.fi = caller.fi + 1])
    /\ UNCHANGED <<defs, deselect, collected, FirstPassCollect, items, kwargs, idx, pc,
                   runVars, statusVars>>

\* line 291: items[:] = new_items
modifyitems_end ==
    /\ pc = "loop"
    /\ stack = <<>>
    /\ idx > Len(items)
    /\ items' = new_items
    /\ pc' = "done"
    /\ UNCHANGED <<defs, deselect, collected, FirstPassCollect, kwargs, seen, new_items,
                   stack, idx, runVars, statusVars>>

NextStatic ==
    \/ pytest_pycollect_makeitem
    \/ modifyitems_begin
    \/ loop_call
    \/ dfs_marker
    \/ dfs_recurse
    \/ dfs_writeback
    \/ dfs_return
    \/ modifyitems_end

SpecStatic == InitStatic /\ [][NextStatic]_vars

-----------------------------------------------------------------------------
(* Reading the state *)

\* the manager attached to node n has an entry for name
registered(n, name) ==
    dependencyManager[n] # Nothing /\ dictHas(dependencyManager[n][1].results, name)

\* the outcome stored for a phase of a registered name
outcomeOf(n, name, when) == dictGet(dictGet(dependencyManager[n][1].results, name), when)

\* all three phases of a registered name are stored as passed
allPassed(n, name) == \A w \in Range(Phases) : outcomeOf(n, name, w) = "passed"

\* the dependency checks whose result the state shows: the setup hook's (stage
\* "setup", a marker with a non-empty depends list) or the test body's depends()
Checks ==
    IF stage = "setup" /\ cur # 0
    THEN LET item == TestItems[cur]
             deps == dictGetOpt(item.marker.kwargs, "depends") IN
         IF item.marker.present /\ deps # Nothing /\ deps[1] # <<>>
         THEN {[item |-> item, names |-> deps[1], by |-> "marker",
                scope |-> IF dictHas(item.marker.kwargs, "scope")
                          THEN dictGet(item.marker.kwargs, "scope") ELSE "module"]}
         ELSE {}
    ELSE IF request # Nothing
         THEN {[item |-> TestItems[cur], names |-> request[1].other, by |-> "depends",
                scope |-> request[1].scope]}
         ELSE {}

\* the checks that found a manager: a known scope word and an enclosing container
ManagedChecks ==
    {c \in Checks : c.scope \in Range(ScopeCls) /\ c.item.parents[c.scope] # None}

nodeOf(c) == c.item.parents[c.scope]

\* the skip message names the current item and the dependency dep
skipNames(c, dep) ==
    /\ signal.kind = "skip"
    /\ signal.msg = c.item.name \o <<" depends on ">> \o dep

\* the k-th name of the check is registered and not fully passed
unmetAt(c, k) ==
    /\ registered(nodeOf(c), c.names[k])
    /\ ~allPassed(nodeOf(c), c.names[k])

unknownAt(c, k) == ~registered(nodeOf(c), c.names[k])

-----------------------------------------------------------------------------
(* C1: with ignore-unknown off, when test_b's setup hook runs after the three *)
(* phase reports of test_a: if one of them is not "passed" the hook raises a  *)
(* skip whose message names test_a; if all are "passed" the hook raises       *)
(* nothing, and test_b gets to its call phase only in that case.              *)

test_a == <<"test_a">>
test_b_id == CHOOSE i \in ItemIds : TestItems[i].name = <<"test_b">>

threeRecorded(n, name) ==
    registered(n, name) /\ \A w \in Range(Phases) : outcomeOf(n, name, w) # None

C1_SkipUnlessPassed ==
    (cur = test_b_id /\ ~ignore_unknown) =>
        /\ (stage = "setup" /\ threeRecorded("mod.py", test_a)) =>
              IF allPassed("mod.py", test_a)
              THEN signal = NoSignal
              ELSE signal.kind = "skip" /\ Contains(signal.msg, test_a)
        /\ stage = "call" => registered("mod.py", test_a) /\ allPassed("mod.py", test_a)

\* test_a failed in its call phase and test_b's setup hook has just skipped
C1_Witness ==
    /\ cur = test_b_id /\ stage = "setup" /\ ~ignore_unknown
    /\ threeRecorded("mod.py", test_a)
    /\ outcomeOf("mod.py", test_a, "setup") = "passed"
    /\ outcomeOf("mod.py", test_a, "call") = "failed"
    /\ outcomeOf("mod.py", test_a, "teardown") = "passed"
    /\ signal.kind = "skip" /\ Contains(signal.msg, test_a)

-----------------------------------------------------------------------------
(* C2: after any sequence of addResult calls, isSuccess() is true exactly     *)
(* when each of the three phases has been recorded and its most recent        *)
(* outcome is "passed"; the stored outcome of a phase is the most recent one  *)
(* recorded, None when the phase was never recorded.                          *)

\* the position in calls of the last report for phase w, 0 when there is none
lastCall(w) ==
    IF \E i \in DOMAIN calls : calls[i].when = w
    THEN CHOOSE i \in DOMAIN calls :
            calls[i].when = w /\ \A j \in DOMAIN calls : calls[j].when = w => j <= i
    ELSE 0

C2_SuccessIffLastAllPassed ==
    /\ isSuccess(status) <=>
          \A w \in Range(Phases) : lastCall(w) # 0 /\ calls[lastCall(w)].outcome = "passed"
    /\ \A w \in Range(Phases) :
          dictGet(status, w) = IF lastCall(w) = 0 THEN None ELSE calls[lastCall(w)].outcome

\* a failed setup was recorded again as passed, and the status is a success
C2_Witness ==
    /\ isSuccess(status)
    /\ \E i \in DOMAIN calls : calls[i] = Report("setup", "failed")

-----------------------------------------------------------------------------
(* C3: in checkDepend, if some name of the list is registered and not a       *)
(* success, the item is skipped at the first such name or at an earlier name  *)
(* (which then is an unknown name, with ignore-unknown off), never at a later *)
(* one; the message holds the item's name and the dependency's name; this is  *)
(* so whatever ignore-unknown is.  If every name is registered and a success, *)
(* nothing is raised.                                                         *)

C3_SkipAtFirstUnmet ==
    \A c \in ManagedChecks :
        /\ \A k \in DOMAIN c.names :
              (unmetAt(c, k) /\ \A j \in 1..(k - 1) : ~unmetAt(c, j)) =>
                  \/ skipNames(c, c.names[k])
                  \/ \E j \in 1..(k - 1) :
                        unknownAt(c, j) /\ ~ignore_unknown /\ skipNames(c, c.names[j])
        /\ (\A k \in DOMAIN c.names :
                registered(nodeOf(c), c.names[k]) /\ allPassed(nodeOf(c), c.names[k]))
              => signal = NoSignal

\* a list whose first name succeeded and whose second did not: skipped at the second
C3_Witness ==
    \E c \in ManagedChecks :
        /\ Len(c.names) >= 2
        /\ registered(nodeOf(c), c.names[1]) /\ allPassed(nodeOf(c), c.names[1])
        /\ unmetAt(c, 2)
        /\ skipNames(c, c.names[2])

-----------------------------------------------------------------------------
(* C4: a list naming a test never registered in the manager: with             *)
(* ignore-unknown off the item is skipped; with ignore-unknown on no skip is  *)
(* raised for that name, and the other names are still checked (the first     *)
(* registered name that is not a success is the one the skip names, and with  *)
(* none there is no skip).                                                    *)

C4_UnknownToggle ==
    \A c \in ManagedChecks :
        (\E k \in DOMAIN c.names : unknownAt(c, k)) =>
            IF ~ignore_unknown
            THEN signal.kind = "skip"
            ELSE /\ \A k \in DOMAIN c.names : unknownAt(c, k) => ~skipNames(c, c.names[k])
                 /\ \A k \in DOMAIN c.names :
                        (unmetAt(c, k) /\ \A j \in 1..(k - 1) : ~unmetAt(c, j))
                            => skipNames(c, c.names[k])
                 /\ (\A k \in DOMAIN c.names : ~unmetAt(c, k)) => signal = NoSignal

\* ignore-unknown on, an unknown name first, then a name that did not succeed
C4_Witness ==
    \E c \in ManagedChecks :
        /\ ignore_unknown
        /\ Len(c.names) >= 2
        /\ unknownAt(c, 1)
        /\ unmetAt(c, 2)
        /\ skipNames(c, c.names[2])

-----------------------------------------------------------------------------
(* C5: a dependency check at a scope for which the test has no enclosing      *)
(* container is a no-op for both callers: no skip and no error.               *)

C5_NoContainerIsNoOp ==
    \A c \in Checks :
        (c.scope \in Range(ScopeCls) /\ c.item.parents[c.scope] = None)
            => signal = NoSignal

-----------------------------------------------------------------------------
(* C6: a container's manager is created at most once and is never replaced or *)
(* reset: across every step a manager that exists stays, with its scope, its  *)
(* names and every outcome already recorded (an outcome changes only by the   *)
(* report of that phase); a second getManager for the same node and scope     *)
(* returns the same manager and leaves the attributes as the first left them. *)

ManagerKept(n) ==
    dependencyManager[n] # Nothing =>
        /\ dependencyManager'[n] # Nothing
        /\ dependencyManager'[n][1].scope = dependencyManager[n][1].scope
        /\ \A i \in DOMAIN dependencyManager[n][1].results :
              LET old == dependencyManager[n][1].results[i]
                  new == dependencyManager'[n][1].results[i] IN
              /\ i \in DOMAIN dependencyManager'[n][1].results
              /\ new[1] = old[1]
              /\ \A w \in Range(Phases) :
                    \/ dictGet(new[2], w) = dictGet(old[2], w)
                    \/ stage = w

SecondLookupSame ==
    \A i \in ItemIds, scope \in Range(ScopeCls) :
        LET first == getManager(dependencyManager, TestItems[i], scope)
            second == getManager(first.dm, TestItems[i], scope) IN
        /\ second.ret = first.ret
        /\ second.dm = first.dm
        /\ first.ret # None =>
              /\ first.dm[first.ret] # Nothing
              /\ dependencyManager[first.ret] # Nothing
                    => first.dm[first.ret] = dependencyManager[first.ret]

C6_ManagerIsStable ==
    [][SecondLookupSame /\ \A n \in Nodes : ManagerKept(n)]_vars

\* a manager reached by three lookups holds all three outcomes of test_a
C6_Witness ==
    /\ threeRecorded("mod.py", test_a)
    /\ allPassed("mod.py", test_a)
    /\ stage = "idle"

-----------------------------------------------------------------------------
(* C7: the test pkg/m2.py::C::test_a, registered without a name, is stored    *)
(* under three different names: the full identifier in the session manager,   *)
(* "C::test_a" in the module manager and "test_a" in the class manager; none  *)
(* of the managers holds it under another scope's name, so a check through    *)
(* the module or the session manager for "test_a", or through the class       *)
(* manager for "C::test_a", finds the name unregistered and, with            *)
(* ignore-unknown off, skips.                                                 *)

inClass_id == CHOOSE i \in ItemIds : TestItems[i].nodeid = <<"pkg/m2.py", SEP, "C", SEP, "()", SEP, "test_a">>
classNode == "pkg/m2.py::C"
moduleNode == "pkg/m2.py"
fullName == <<"pkg/m2.py", SEP, "C", SEP, "test_a">>
moduleName == <<"C", SEP, "test_a">>
className == <<"test_a">>

\* the name another scope uses for the test
foreignNames(scope) ==
    IF scope = "class" THEN {fullName, moduleName}
    ELSE IF scope = "module" THEN {fullName, className}
    ELSE {moduleName, className}

C7_ScopeIsolation ==
    /\ registered(classNode, className) =>
          /\ registered(moduleNode, moduleName)
          /\ registered("session", fullName)
          /\ registered("pkg", fullName)
          /\ ~registered(classNode, moduleName) /\ ~registered(classNode, fullName)
          /\ ~registered(moduleNode, className) /\ ~registered(moduleNode, fullName)
          /\ ~registered("session", className) /\ ~registered("session", moduleName)
          /\ \A w \in Range(Phases) :
                /\ outcomeOf(moduleNode, moduleName, w) = outcomeOf(classNode, className, w)
                /\ outcomeOf("session", fullName, w) = outcomeOf(classNode, className, w)
    /\ \A c \in ManagedChecks :
          (c.item = TestItems[inClass_id] /\ c.names # <<>>
             /\ c.names[1] \in foreignNames(c.scope))
              => /\ unknownAt(c, 1)
                 /\ ~ignore_unknown => skipNames(c, c.names[1])

\* the test is registered in its class, and a check of "test_a" through the
\* module manager has skipped
C7_Witness ==
    /\ registered(classNode, className)
    /\ \E c \in ManagedChecks :
          /\ c.item = TestItems[inClass_id]
          /\ c.scope = "module"
          /\ c.names = <<className>>
          /\ skipNames(c, className)

-----------------------------------------------------------------------------
(* Reading the collection *)

ItemsOf(l) == {l[k] : k \in DOMAIN l}
Collected == DOMAIN collected
nameOf(i) == collected[i].name

\* the item carries a marker; its declaration as written in the test module
hasMark(i) == collected[i].markers # <<>>
midOf(i) == collected[i].markers[1]
declared(i) == defs[midOf(i)].marks[1]

\* dfs has visited the item
visited(i) == nameOf(i) \in DOMAIN seen

\* the collected candidates of raw name r for the dependent i: the items
\* generated from the function r whose name is r, or r with i's postfix
candidates(i, r) ==
    {j \in Collected :
        /\ collected[j].originalname = r
        /\ \/ nameOf(j) = r
           \/ nameOf(j) = r \o SubSeq(nameOf(i), Len(collected[i].originalname) + 1,
                                      Len(nameOf(i)))}

\* the items the declaration of i names
direct(i) ==
    IF hasMark(i) THEN UNION {candidates(i, r) : r \in declared(i).depends} ELSE {}

RECURSIVE closure(_, _)
closure(S, n) ==
    IF n = 0 THEN S ELSE closure(S \cup UNION {direct(j) : j \in S}, n - 1)

\* the transitive dependencies of i
reach(i) == closure(direct(i), Cardinality(Collected))

allResolve(i) == hasMark(i) => \A r \in declared(i).depends : candidates(i, r) # {}

\* i heads an acyclic chain of collect-flagged declarations whose names all resolve
Chain(i) ==
    /\ hasMark(i)
    /\ \A j \in {i} \cup reach(i) :
          /\ hasMark(j) => declared(j).collect \/ declared(j).depends = {}
          /\ allResolve(j)
          /\ j \notin reach(j)

-----------------------------------------------------------------------------
(* C8: when the pass is over, a visited item that heads an acyclic chain of   *)
(* collect-flagged declarations whose names all resolve has as its depends    *)
(* exactly the names of its transitive dependencies, and it and all of them   *)
(* are in the final item list.  (baz without dependencies, foo depending on   *)
(* baz, bar depending on foo: bar[1] ends with {foo[1], baz}, foo with {baz}.)*)

C8_TransitiveResolution ==
    pc = "done" =>
        \A i \in Collected :
            (visited(i) /\ Chain(i)) =>
                /\ kwargs[midOf(i)].depends = {nameOf(j) : j \in reach(i)}
                /\ seen[nameOf(i)] = {nameOf(j) : j \in reach(i)}
                /\ ({i} \cup reach(i)) \subseteq ItemsOf(items)

\* the chain baz <- foo <- bar, every item selected
C8_Witness ==
    /\ pc = "done"
    /\ deselect = 0
    /\ defs[2].params = <<"[1]">>
    /\ defs[1].marks = <<Kwargs(TRUE, {baz})>>
    /\ defs[2].marks = <<Kwargs(TRUE, {foo})>>
    /\ defs[3].marks = <<>>
    /\ kwargs[2].depends = {<<"foo", "[1]">>, baz}
    /\ kwargs[1].depends = {baz}
    /\ ItemsOf(items) = Collected

\* no other collected item carries the marker object of i
unshared(i) == \A j \in Collected : (hasMark(j) /\ midOf(j) = midOf(i)) => j = i

\* the same statement for the items that do not share their marker object
C8_UnsharedResolution ==
    pc = "done" =>
        \A i \in Collected :
            (visited(i) /\ Chain(i) /\ unshared(i)) =>
                /\ kwargs[midOf(i)].depends = {nameOf(j) : j \in reach(i)}
                /\ seen[nameOf(i)] = {nameOf(j) : j \in reach(i)}
                /\ ({i} \cup reach(i)) \subseteq ItemsOf(items)

-----------------------------------------------------------------------------
(* C9: foo is collected as foo[1] and foo[2], in either order; whenever dfs   *)
(* resolves the raw dependency "foo" of bar[1] it takes the item foo[1] and   *)
(* the name "foo[1]", never foo[2], and at the end of the pass the depends of *)
(* a collect-flagged bar[1] that named "foo" holds "foo[1]" and not "foo[2]". *)

foo1 == <<"foo", "[1]">>
foo2 == <<"foo", "[2]">>
bar1 == <<"bar", "[1]">>

C9_PostfixMatch ==
    /\ \A k \in DOMAIN stack :
          LET f == stack[k] IN
          (nameOf(f.item) = bar1 /\ collected[f.item].originalname = bar
             /\ foo \in f.dependencies) =>
              /\ foo1 \in f.new_dependencies
              /\ foo2 \notin f.new_dependencies
              /\ \E j \in ItemsOf(f.dfs_funs) : nameOf(j) = foo1
              /\ \A j \in ItemsOf(f.dfs_funs) : nameOf(j) # foo2
    /\ (pc = "done" /\ defs[2].marks # <<>> /\ defs[2].params = <<"[1]">>) =>
          LET d == defs[2].marks[1] IN
          (d.collect /\ foo \in d.depends /\ bar1 \in DOMAIN seen) =>
              /\ foo1 \in kwargs[2].depends /\ foo2 \notin kwargs[2].depends
              /\ foo1 \in seen[bar1] /\ foo2 \notin seen[bar1]

\* foo[2] was collected before foo[1], and bar[1] ended with "foo[1]"
C9_Witness ==
    /\ pc = "done"
    /\ defs[2].params = <<"[1]">>
    /\ nameOf(dictGet(FirstPassCollect, foo)[1]) = foo2
    /\ defs[2].marks = <<Kwargs(TRUE, {foo})>>
    /\ foo1 \in kwargs[2].depends
    /\ \E i \in ItemsOf(items) : nameOf(i) = bar1

-----------------------------------------------------------------------------
(* C10: a test whose collect-flagged declaration holds a raw name with no     *)
(* matching collected candidate is absent from the final item list, whatever  *)
(* the other names of the declaration are.                                    *)

unresolvable(i) ==
    hasMark(i) /\ declared(i).collect
        /\ \E r \in declared(i).depends : candidates(i, r) = {}

C10_UnresolvableDropped ==
    pc = "done" => \A i \in Collected : unresolvable(i) => i \notin ItemsOf(items)

\* an unresolved raw name is the resolved form of another name of the declaration
collides(i) ==
    \E r \in declared(i).depends :
        /\ candidates(i, r) = {}
        /\ \E q \in declared(i).depends :
              \E j \in candidates(i, q) : nameOf(j) = r /\ q # r

\* the drop happens whenever no such coincidence of names occurs
C10_DroppedUnlessCollision ==
    pc = "done" =>
        \A i \in Collected : (unresolvable(i) /\ ~collides(i)) => i \notin ItemsOf(items)

-----------------------------------------------------------------------------
(* The list the host gave to pytest_collection_modifyitems: the generated    *)
(* items of every function but the one left out, in collection order (an     *)
(* item's id is its place in that order).                                    *)

InputSet ==
    UNION {Range(FirstPassCollect[d][2]) : d \in DOMAIN FirstPassCollect \ {deselect}}

\* no declaration of i carries the collect flag
noCollectFlag(i) == hasMark(i) => ~declared(i).collect

-----------------------------------------------------------------------------
(* C11: when the pass is over, every item of the input list none of whose    *)
(* declarations carries the collect flag is in the final item list, whether  *)
(* or not its names resolve and whether or not other items name it.          *)

C11_NonCollectKept ==
    pc = "done" =>
        \A i \in InputSet : noCollectFlag(i) => i \in ItemsOf(items)

\* first visited by the loop over the input list: the item is not named, through
\* any chain of declarations, by an item collected before it
notNamedEarlier(i) ==
    \A k \in Collected : (k < i /\ hasMark(k)) => i \notin reach(k)

\* the same statement for the items no earlier item names
C11_KeptUnlessNamedEarlier ==
    pc = "done" =>
        \A i \in InputSet :
            (noCollectFlag(i) /\ notNamedEarlier(i)) => i \in ItemsOf(items)

-----------------------------------------------------------------------------
(* C12 as stated: the final list holds only items of the input list, each at *)
(* most once, in their collection order.                                     *)

noDup(l) == \A a, b \in DOMAIN l : a # b => l[a] # l[b]
posIn(l, i) == CHOOSE k \in DOMAIN l : l[k] = i

pulledBy(j, i) ==
    \E k \in InputSet : k <= i /\ nameOf(j) \in seen[nameOf(k)]

-----------------------------------------------------------------------------
(* C13: in every state in which the body of a test may call depends(), for   *)
(* that test, every non-empty list of names and every scope word, the call   *)
(* depends(request, names, scope) raises what the setup hook raises for the  *)
(* same item carrying a marker with that depends list and that scope (the    *)
(* same skip naming the same dependency, or the same error, or nothing), and *)
(* leaves the same node attributes; neither changes a registry: existing     *)
(* managers stay as they are and a manager created by the lookup is empty.   *)

withMarker(item, names, scope) ==
    [item EXCEPT !.marker = Marker(<< <<"depends", names>>, <<"scope", scope>> >>)]

registriesKept(dm) ==
    \A n \in Nodes :
        IF dependencyManager[n] # Nothing THEN dm[n] = dependencyManager[n]
        ELSE dm[n] # Nothing => dm[n][1].results = <<>>

C13_DependsMatchesMarker ==
    (cur # 0 /\ stage = "call" /\ request = Nothing) =>
        \A names \in OtherLists \ {<<>>}, scope \in ScopeWords :
            LET byCall == depends(dependencyManager, TestItems[cur], names, scope)
                byMarker == runtest_setup(dependencyManager,
                                          withMarker(TestItems[cur], names, scope)) IN
            /\ byCall.sig = byMarker.sig
            /\ byCall.dm = byMarker.dm
            /\ registriesKept(byCall.dm)

\* a test body has called depends(request, ["test_a"], "module") and was skipped,
\* while test_a is registered in the module manager
C13_Witness ==
    /\ request = Some([other |-> <<test_a>>, scope |-> "module"])
    /\ signal.kind = "skip"
    /\ cur # 0
    /\ registered(TestItems[cur].parents["module"], test_a)

-----------------------------------------------------------------------------
(* C14: a scope word outside session, package, module, class is an error:    *)
(* getManager with such a word raises an error, attaches no manager and      *)
(* issues no skip; and every addResult on a manager constructed with such a  *)
(* word raises an error and adds no entry to its registry.                   *)

unknownScopes == ScopeWords \ Range(ScopeCls)

lookupFails ==
    \A i \in ItemIds, scope \in unknownScopes :
        LET g == getManager(dependencyManager, TestItems[i], scope) IN
        /\ g.sig.kind = "error"
        /\ g.dm = dependencyManager

C14_UnknownScopeIsFatal ==
    /\ lookupFails
    /\ (manager # Nothing /\ manager[1].scope \in unknownScopes /\ given # <<>>) =>
          /\ raised.kind = "error"
          /\ manager[1].results = <<>>

\* the lookup half, in every state of the run: a check with an unknown scope
\* word ends in an error, never in a skip, and no manager is attached
C14_UnknownScopeLookup ==
    /\ lookupFails
    /\ \A c \in Checks : c.scope \in unknownScopes => signal.kind = "error"

\* the addResult half for the items registered without an explicit name
C14_UnnamedIsFatal ==
    (manager # Nothing /\ manager[1].scope \in unknownScopes /\ given # <<>>
        /\ given[Len(given)].name = Nothing) =>
            raised = Raise("RuntimeError")

-----------------------------------------------------------------------------
(* C15: the pass never runs out of stack, cycles of collect-flagged          *)
(* declarations included, and no item is being expanded by two calls of dfs  *)
(* at once: a second visit returns the memoized set.                         *)

C15_CyclesTerminate ==
    /\ pc # "RecursionError"
    /\ \A a, b \in DOMAIN stack : a # b => stack[a].item # stack[b].item

\* some item names itself through a chain of declarations
cyclic == \E i \in Collected : hasMark(i) /\ i \in reach(i)

\* the same statement when no declaration chain leads back to its start
C15_AcyclicTerminate ==
    ~cyclic => C15_CyclesTerminate

-----------------------------------------------------------------------------
(* C16: when the pass is over, the resolved set of a visited item x whose    *)
(* collect-flagged declaration resolves in every name holds, for every item  *)
(* y it matched, the names of the items y's own declaration names, directly  *)
(* or through further declarations, whether or not y's declaration carries   *)
(* the collect flag and whenever y was first visited.                        *)

resolvesCompletely(x) == hasMark(x) /\ declared(x).collect /\ allResolve(x)

C16_ForcedExpansion ==
    pc = "done" =>
        \A x \in Collected :
            (visited(x) /\ resolvesCompletely(x)) =>
                \A y \in direct(x) :
                    {nameOf(z) : z \in reach(y)} \subseteq seen[nameOf(x)]

\* y is first visited through x: the loop over the input list reaches x first,
\* and no item before x names y
firstVisitedThrough(y, x) ==
    /\ x \in InputSet
    /\ notNamedEarlier(x)
    /\ \A k \in InputSet : k < x => k # y /\ (hasMark(k) => y \notin reach(k))

\* the same statement, one level deep, for the items first visited through x,
\* x being the only item carrying its marker
C16_ExpandedWhenVisitedThrough ==
    pc = "done" =>
        \A x \in Collected :
            (visited(x) /\ resolvesCompletely(x) /\ unshared(x)) =>
                \A y \in direct(x) :
                    firstVisitedThrough(y, x) =>
                        {nameOf(z) : z \in direct(y)} \subseteq seen[nameOf(x)]

-----------------------------------------------------------------------------
(* C17: when the pass is over, every item that an item of the final list     *)
(* with a collect-flagged declaration reaches through its declaration and    *)
(* those of the items it names, at any depth, has a candidate for each of    *)
(* its raw names and is in the final list too.                               *)

C17_ChainsFullyResolved ==
    pc = "done" =>
        \A i \in ItemsOf(items) :
            (hasMark(i) /\ declared(i).collect) =>
                \A j \in reach(i) : allResolve(j) /\ j \in ItemsOf(items)

-----------------------------------------------------------------------------
(* The names the scopes use, written from the node id: the id without its    *)
(* '::()' instance marker, and without its first n segments.                 *)

RECURSIVE withoutInstance(_)
withoutInstance(s) ==
    IF s = <<>> THEN <<>>
    ELSE IF Len(s) >= 2 /\ s[1] = SEP /\ s[2] = "()"
         THEN withoutInstance(SubSeq(s, 3, Len(s)))
         ELSE <<Head(s)>> \o withoutInstance(Tail(s))

RECURSIVE withoutSegments(_, _)
withoutSegments(s, n) ==
    IF n = 0 THEN s
    ELSE withoutSegments(SubSeq(s, find(s, SEP, 1) + 1, Len(s)), n - 1)

nameIn(scope, item) ==
    withoutSegments(withoutInstance(item.nodeid),
                    IF scope = "module" THEN 1 ELSE IF scope = "class" THEN 2 ELSE 0)

\* the step is a phase report of the running item
reporting == cur # 0 /\ stage \in Range(Phases) /\ stage' # stage

unnamedMarked(item) ==
    item.marker.present /\ dictGetOpt(item.marker.kwargs, "name") = Nothing

ancestors(item) == {item.parents[scope] : scope \in Range(ScopeCls)} \ {None}

\* after the step the manager of the node holds, under name, outcome o for phase when
storedAfter(node, name, when, o) ==
    /\ dependencyManager'[node] # Nothing
    /\ dictHas(dependencyManager'[node][1].results, name)
    /\ dictGet(dictGet(dependencyManager'[node][1].results, name), when) = o

-----------------------------------------------------------------------------
(* C18: a phase report of a marked item without an explicit name is stored,  *)
(* with one and the same outcome, in the manager of every scope whose        *)
(* container exists, under that scope's name for the item (the full id for   *)
(* session and package, the id without the file segment for module, without  *)
(* the file and class segments for class, the '::()' marker removed); the    *)
(* nodes that are not containers of the item keep their attributes as they   *)
(* were, and the hook raises nothing.                                        *)

C18_ForwardedToEveryScope ==
    [][(reporting /\ unnamedMarked(TestItems[cur])) =>
          LET item == TestItems[cur] IN
          /\ \E o \in PhaseOutcomes(item, stage, signal) :
                \A scope \in Range(ScopeCls) :
                    item.parents[scope] # None =>
                        storedAfter(item.parents[scope], nameIn(scope, item), stage, o)
          /\ \A n \in Nodes \ ancestors(item) :
                dependencyManager'[n] = dependencyManager[n]
          /\ signal' = NoSignal]_vars

\* the class member was reported: its four containers hold it, each under its
\* own name; and a module of no package holds a test of its own
C18_Witness ==
    /\ registered("session", fullName)
    /\ registered("pkg", fullName)
    /\ registered(moduleNode, moduleName)
    /\ registered(classNode, className)
    /\ outcomeOf(classNode, className, "teardown") = "passed"
    /\ registered("mod.py", test_a)
    /\ ~registered("pkg", <<"mod.py", SEP, "test_a">>)

-----------------------------------------------------------------------------
(* C19: when the setup hook of a marked test raises a skip, the report that  *)
(* follows stores "skipped" as the setup outcome of the test in every scope  *)
(* that has a container, under the name the test is registered with, the     *)
(* test goes to teardown without a call phase, and its status is not a       *)
(* success; and in every state, a dependency check that names a test whose   *)
(* stored setup outcome is "skipped" has raised a skip, so the skip goes on  *)
(* to the tests that depend on the skipped one (test_a unmet, test_b         *)
(* skipped, test_c skipped).                                                 *)

\* the name a marked item is registered with in a scope
registeredName(scope, item) ==
    LET given_name == dictGetOpt(item.marker.kwargs, "name") IN
    IF given_name # Nothing THEN given_name[1] ELSE nameIn(scope, item)

skipRecorded ==
    (reporting /\ stage = "setup" /\ signal.kind = "skip") =>
        LET item == TestItems[cur] IN
        /\ stage' = "teardown"
        /\ \A scope \in Range(ScopeCls) :
              item.parents[scope] # None =>
                  /\ storedAfter(item.parents[scope], registeredName(scope, item),
                                 "setup", "skipped")
                  /\ ~isSuccess(dictGet(dependencyManager'[item.parents[scope]][1].results,
                                        registeredName(scope, item)))

skipGoesOn ==
    \A c \in ManagedChecks :
        \A k \in DOMAIN c.names :
            (registered(nodeOf(c), c.names[k])
                /\ outcomeOf(nodeOf(c), c.names[k], "setup") = "skipped")
              => signal.kind = "skip"

C19_SkipsPropagate == [][skipRecorded]_vars /\ []skipGoesOn

\* test_b was skipped at setup, and the setup hook of test_c, which depends on
\* test_b, has raised a skip naming test_b
C19_Witness ==
    /\ cur # 0
    /\ TestItems[cur].name = <<"test_c">>
    /\ stage = "setup"
    /\ registered("mod.py", <<"test_b">>)
    /\ outcomeOf("mod.py", <<"test_b">>, "setup") = "skipped"
    /\ signal = Skip(<<"test_c", " depends on ", "test_b">>)

-----------------------------------------------------------------------------
(* C20: a phase report of an item without a dependency marker, automark off, *)
(* leaves the attribute of every node as it was (no entry, no new manager);  *)
(* a report of an item with the marker, or of any item with automark on, is  *)
(* stored in every scope that has a container.  So with automark off no      *)
(* manager ever holds a name of an unmarked item, and checkDepend for such a *)
(* name, on any manager there is, finds it unknown: it raises the skip, or   *)
(* passes over it when ignore-unknown is on.                                 *)

Unmarked == {i \in ItemIds : ~TestItems[i].marker.present}

onlyProducersRecorded ==
    reporting =>
        LET item == TestItems[cur] IN
        IF ~item.marker.present /\ ~automark
        THEN dependencyManager' = dependencyManager /\ signal' = NoSignal
        ELSE \E o \in PhaseOutcomes(item, stage, signal) :
                \A scope \in Range(ScopeCls) :
                    item.parents[scope] # None =>
                        storedAfter(item.parents[scope], registeredName(scope, item),
                                    stage, o)

unmarkedUnknown ==
    ~automark =>
        \A u \in Unmarked, n \in Nodes :
            dependencyManager[n] # Nothing =>
                LET mgr == dependencyManager[n][1]
                    name == nameIn(mgr.scope, TestItems[u]) IN
                /\ ~dictHas(mgr.results, name)
                /\ \A d \in ItemIds :
                      checkDepend(mgr, <<name>>, TestItems[d]) =
                          IF ignore_unknown THEN NoSignal
                          ELSE Skip(TestItems[d].name \o <<" depends on ">> \o name)

C20_OnlyProducersRecorded == [][onlyProducersRecorded]_vars /\ []unmarkedUnknown

\* automark off: the unmarked test_u has reported its setup and its call, and
\* the manager of its module exists (a marked test of the module ran before)
C20_Witness ==
    /\ ~automark
    /\ cur \in Unmarked
    /\ stage = "teardown"
    /\ dependencyManager[TestItems[cur].parents["module"]] # Nothing

====
